---------------------------- MODULE Spec2Model ----------------------------
(***************************************************************************)
(* A model of the boundary normalisation / upload scripts and of the      *)
(* dataset health calculator of slsc-needs-severity-toolset (scripts/).    *)
(*                                                                         *)
(* The module holds several specifications over one set of variables:     *)
(*   SpecHealth  calculate_health_metrics + determine_cleaning_status and *)
(*               audit_dataset applied to one dataset of the store        *)
(*   SpecStatus  determine_cleaning_status applied to health records      *)
(*   SpecUpload  the boundary uploaders working on the admin_boundaries   *)
(*               table                                                     *)
(*   SpecNorm    the filter-and-deduplicate steps of the Geometry         *)
(*               Normalizer variants                                      *)
(* A specification leaves the variables of the other parts at their idle  *)
(* values.                                                                 *)
(*                                                                         *)
(* Numbers: the ratios the scripts compute with Python floats are kept as *)
(* exact fractions <<numerator, denominator>>; the thresholds 0.95 and    *)
(* 0.85 are compared by cross multiplication.  For the sizes explored     *)
(* here the float comparison and the exact one agree.                     *)
(***************************************************************************)
EXTENDS Integers, Sequences, FiniteSets, Bags, TLC

VARIABLES
    \* ---- health calculator (update_dataset_health_metadata.py, audit_datasets.py)
    hpc,              \* position of the run over the dataset: "input", "done", "skipped", "audited"
    boundaries,       \* admin_pcodes of admin_boundaries at the dataset's country and level
    values,           \* rows of dataset_values_numeric / _categorical of the dataset (a bag)
    row,              \* the dataset's row of the datasets table (id, name, type, admin_level, metadata)
    dataset,          \* the row as the run read it (local of main)
    usage_count,      \* count of instance_datasets rows with this dataset_id, as the run saw it
    health_metrics,   \* local of main: what calculate_health_metrics returned
    cleaning_status,  \* local of main: what determine_cleaning_status returned
    calc,             \* locals of calculate_health_metrics when it reached the set computation
    audit_stats,      \* stats of audit_dataset
    \* ---- boundary uploaders
    upc,              \* position of the upload run
    store,            \* the admin_boundaries table: a set of records
    layer,            \* the source layer being imported: a sequence of rows
    job,              \* parameters of the running import
    ustats,           \* counters of the running import
    snap,             \* snapshots taken for comparison (the table; the dataset row as first supplied)
    \* ---- geometry normalizer
    npc,              \* position of the normalizer run
    raw,              \* the raw layer: a sequence of rows
    normalized,       \* output of the first pass
    renormalized,     \* output of the steps applied to 'normalized'
    \* ---- schema resolution, one run over the layer files of a country
    lpc,              \* position of the run: "loop", "file", "done", "aborted"
    lrun,             \* the run: script, number of layer files, files gone through
    gdf,              \* the layer file the loop last took: readable or not, columns, level
    resolved,         \* what the resolver returned for it, and what became of the layer
    layer_records,    \* records of that layer written to admin_boundaries
    \* ---- one country of a reimport run (process_country, main)
    cpc,              \* position of the run for the country
    crun              \* its inputs and locals: credentials, mapping, frames, stats, uploads

hvars == <<hpc, boundaries, values, row, dataset, usage_count, health_metrics,
           cleaning_status, calc, audit_stats>>
uvars == <<upc, store, layer, job, ustats, snap>>
rvars == <<lpc, lrun, gdf, resolved, layer_records>>
cvars == <<cpc, crun>>
nvars == <<npc, raw, normalized, renormalized, rvars, cvars>>
vars  == <<hvars, uvars, nvars>>

-----------------------------------------------------------------------------
(* Values of Python that have no TLA+ counterpart *)

NoKey    == "<none>"              \* a missing key / None where the field holds strings
None     == <<>>                  \* None where the field holds numbers: None, or <<n>> for n
Some(n)  == <<n>>
NoHealth == [none |-> TRUE]       \* calculate_health_metrics returned None

Ratio(n, d) == <<n, d>>           \* the float n / d, kept exact
One         == Ratio(1, 1)        \* 1.0
Zero        == Ratio(0, 1)        \* 0
\* r >= p / q
RatioGE(r, p, q) == r[1] * q >= p * r[2]
RatioEq(r, s)    == r[1] * s[2] = s[1] * r[2]
RatioIsZero(r)   == r[1] = 0

-----------------------------------------------------------------------------
(* Bounds and input sets of the health calculator *)

MaxRows == 4                      \* value rows of the dataset

BoundaryCodes == {"A", "B", "C"}            \* codes the boundary table may hold at the level
ValueCodes    == {"A", "B", "C", "D"}       \* codes value rows may carry
Categories    == {"urban", "rural"}
UsageCounts   == {0, 1, 2}                  \* instance_datasets rows pointing at the dataset

NumRow(c, v)    == [admin_pcode |-> c, category |-> NoKey, value |-> v]
CatRow(c, k)    == [admin_pcode |-> c, category |-> k, value |-> Some(1)]
\* the numeric rows the store may hold: two candidate values per code
NumericRows ==
    { NumRow("A", Some(10)), NumRow("A", Some(0)),
      NumRow("B", Some(0)),  NumRow("B", Some(10)),
      NumRow("C", None),     NumRow("C", Some(10)),
      NumRow("D", Some(5)),  NumRow("D", None) }
CategoricalRows == { CatRow(c, k) : c \in ValueCodes, k \in Categories }
RowsOfType(t) == IF t = "numeric" THEN NumericRows ELSE CategoricalRows

EmptyMeta ==
    [ source |-> NoKey, is_computed |-> FALSE, computed |-> FALSE,
      readiness |-> NoKey, cleaning_status |-> NoKey,
      data_health |-> NoHealth, notes |-> "kept" ]
BaseDataset(t) ==
    [ id |-> "ds1", name |-> "Population", type |-> t, admin_level |-> "ADM2",
      metadata |-> EmptyMeta ]
\* the dataset rows explored: the plain one and one variant per thing the code looks at
DatasetVariants(t) ==
    { BaseDataset(t),
      [BaseDataset(t) EXCEPT !.admin_level = NoKey],
      [BaseDataset(t) EXCEPT !.metadata.readiness = "ready"],
      [BaseDataset(t) EXCEPT !.metadata.cleaning_status = "ready"],
      [BaseDataset(t) EXCEPT !.name = "Hazard Score"],
      [BaseDataset(t) EXCEPT !.metadata.source = "hazard_event_analysis"],
      [BaseDataset(t) EXCEPT !.metadata.is_computed = TRUE],
      [BaseDataset(t) EXCEPT !.metadata.computed = TRUE] }
Datasets == DatasetVariants("numeric") \cup DatasetVariants("categorical")

-----------------------------------------------------------------------------
(* update_dataset_health_metadata.py *)

\* str.lower() on the dataset names explored
Lower(name) ==
    CASE name = "Population"   -> "population"
      [] name = "Hazard Score" -> "hazard score"
      [] OTHER                 -> name
\* the Python test  sub in s  on the lowered names explored
Contains(s, sub) ==
    \/ s = "hazard score" /\ sub \in {"hazard", "score"}
    \/ s = "population"   /\ sub \in {"population"}

is_computed_dataset(d) ==
    LET name == Lower(d.name)
        metadata == d.metadata
    IN  \/ Contains(name, "hazard") /\ Contains(name, "score")
        \/ metadata.source = "hazard_event_analysis"
        \/ metadata.is_computed \/ metadata.computed

\* number of rows of the bag vs that lie in the set rows
CountRows(vs, rows) ==
    BagCardinality([r \in rows \cap BagToSet(vs) |-> vs[r]])

value_pcodes(vs) == { r.admin_pcode : r \in BagToSet(vs) }

Matched(vp, b)  == vp \cap b
\* the operands of the difference exchanged
OrphanedSwapped(vp, b) == b \ vp
Orphaned(vp, b) == vp \ b
Missing(vp, b)  == b \ vp

\* lines 155-159: pcode_counts, then the number of pcodes counted more than once
DuplicatesNumeric(vs) ==
    LET pcode_counts == [c \in value_pcodes(vs) |->
                            CountRows(vs, {r \in BagToSet(vs) : r.admin_pcode = c})]
    IN  Cardinality({c \in DOMAIN pcode_counts : pcode_counts[c] > 1})

\* lines 184-189: pcode_category_counts, then the number of pairs counted more than once
DuplicatesCategorical(vs) ==
    LET keys == { <<r.admin_pcode, r.category>> : r \in BagToSet(vs) }
        pcode_category_counts == [k \in keys |->
            CountRows(vs, {r \in BagToSet(vs) : r.admin_pcode = k[1] /\ r.category = k[2]})]
    IN  Cardinality({k \in keys : pcode_category_counts[k] > 1})

Duplicates(t, vs) ==
    IF t = "numeric" THEN DuplicatesNumeric(vs) ELSE DuplicatesCategorical(vs)

NullCount(vs) == CountRows(vs, {r \in BagToSet(vs) : r.value = None})
\* zero values not recognised (a comparison that never matches)
ZeroCountNever(vs) == 0
ZeroCount(vs) == CountRows(vs, {r \in BagToSet(vs) : r.value = Some(0)})

HealthRecord(matched, total, alignment, completeness, uniqueness, errors, computed, note) ==
    [ matched |-> matched, total |-> total, percent |-> alignment,
      alignment_rate |-> alignment, coverage |-> alignment,
      completeness |-> completeness, uniqueness |-> uniqueness,
      validation_errors |-> errors, is_computed |-> computed, note |-> note ]

\* lines 148-180
NumericMetrics(b, vs) ==
    LET vp       == value_pcodes(vs)
        n        == BagCardinality(vs)
        matched  == Matched(vp, b)
        orphaned == Orphaned(vp, b)
        dups     == DuplicatesNumeric(vs)
        alignment_rate == Ratio(Cardinality(matched), Cardinality(b))
        completeness   == Ratio(n - NullCount(vs) - ZeroCount(vs), n)
        uniqueness     == Ratio(n - dups, n)
    IN  HealthRecord(Some(Cardinality(matched)), Some(Cardinality(b)), alignment_rate,
                     completeness, uniqueness, Cardinality(orphaned) + dups, FALSE, NoKey)

\* lines 181-210
CategoricalMetrics(b, vs) ==
    LET vp       == value_pcodes(vs)
        n        == BagCardinality(vs)
        matched  == Matched(vp, b)
        orphaned == Orphaned(vp, b)
        dups     == DuplicatesCategorical(vs)
        alignment_rate == Ratio(Cardinality(matched), Cardinality(b))
        completeness   == Ratio(Cardinality(vp), Cardinality(b))
        uniqueness     == Ratio(n - dups, n)
    IN  HealthRecord(Some(Cardinality(matched)), Some(Cardinality(b)), alignment_rate,
                     completeness, uniqueness, Cardinality(orphaned) + dups, FALSE, NoKey)

\* the value rows looked at before the boundaries
CalcBranchValuesFirst(d, b, vs) ==
    IF is_computed_dataset(d) THEN "computed"
    ELSE IF d.admin_level = NoKey THEN "no_level"
    ELSE IF BagCardinality(vs) = 0 THEN
        LET readiness == IF d.metadata.readiness # NoKey THEN d.metadata.readiness
                         ELSE d.metadata.cleaning_status
        IN  IF readiness = "ready" THEN "marked_as_ready" ELSE "no_values"
    ELSE IF b = {} THEN "no_boundaries"
    ELSE "metrics"

\* the readiness mark of the metadata not looked at
CalcBranchIgnoresReadiness(d, b, vs) ==
    IF is_computed_dataset(d) THEN "computed"
    ELSE IF d.admin_level = NoKey THEN "no_level"
    ELSE IF b = {} THEN "no_boundaries"
    ELSE IF BagCardinality(vs) = 0 THEN "no_values"
    ELSE "metrics"

\* which return statement of calculate_health_metrics is taken
CalcBranch(d, b, vs) ==
    IF is_computed_dataset(d) THEN "computed"
    ELSE IF d.admin_level = NoKey THEN "no_level"
    ELSE IF b = {} THEN "no_boundaries"
    ELSE IF BagCardinality(vs) = 0 THEN
        LET readiness == IF d.metadata.readiness # NoKey THEN d.metadata.readiness
                         ELSE d.metadata.cleaning_status
        IN  IF readiness = "ready" THEN "marked_as_ready" ELSE "no_values"
    ELSE "metrics"

calculate_health_metrics(d, b, vs) ==
    LET branch == CalcBranch(d, b, vs)
    IN  CASE branch = "computed" ->
               HealthRecord(None, None, One, One, One, 0, TRUE, NoKey)
          [] branch = "no_level" -> NoHealth
          [] branch = "no_boundaries" ->
               HealthRecord(Some(0), Some(0), Zero, Zero, One, 0, FALSE, NoKey)
          [] branch = "marked_as_ready" ->
               HealthRecord(Some(Cardinality(b)), Some(Cardinality(b)), One, One, One, 0,
                            FALSE, "marked_as_ready")
          [] branch = "no_values" ->
               HealthRecord(Some(0), Some(Cardinality(b)), Zero, Zero, One, 0, FALSE, NoKey)
          [] OTHER ->
               IF d.type = "numeric" THEN NumericMetrics(b, vs)
               ELSE CategoricalMetrics(b, vs)

\* the lookup made when either ratio is 0
UsedInInstancesEither(h, usage) ==
    /\ RatioIsZero(h.alignment_rate) \/ RatioIsZero(h.completeness)
    /\ usage > 0
\* lines 227-232: the instance_datasets lookup
UsedInInstances(h, usage) ==
    /\ RatioIsZero(h.alignment_rate) /\ RatioIsZero(h.completeness)
    /\ usage > 0

\* strict comparisons at the thresholds
determine_cleaning_status_strict(h, d, usage) ==
    IF h = NoHealth THEN "needs_review"
    ELSE IF h.is_computed THEN "ready"
    ELSE IF UsedInInstances(h, usage) THEN "ready"
    ELSE IF /\ ~ RatioGE(Ratio(95, 100), h.alignment_rate[1], h.alignment_rate[2])
            /\ ~ RatioGE(Ratio(95, 100), h.completeness[1], h.completeness[2])
            /\ h.validation_errors = 0 THEN "ready"
    ELSE IF /\ ~ RatioGE(Ratio(85, 100), h.alignment_rate[1], h.alignment_rate[2])
            /\ ~ RatioGE(Ratio(85, 100), h.completeness[1], h.completeness[2]) THEN "in_progress"
    ELSE "needs_review"

determine_cleaning_status(h, d, usage) ==
    IF h = NoHealth THEN "needs_review"
    ELSE IF h.is_computed THEN "ready"
    ELSE IF UsedInInstances(h, usage) THEN "ready"
    ELSE IF /\ RatioGE(h.alignment_rate, 95, 100)
            /\ RatioGE(h.completeness, 95, 100)
            /\ h.validation_errors = 0 THEN "ready"
    ELSE IF /\ RatioGE(h.alignment_rate, 85, 100)
            /\ RatioGE(h.completeness, 85, 100) THEN "in_progress"
    ELSE "needs_review"

NoCalc == [reached |-> FALSE]
CalcLocals(d, b, vs) ==
    IF CalcBranch(d, b, vs) # "metrics" THEN NoCalc
    ELSE LET vp == value_pcodes(vs)
         IN  [ reached |-> TRUE, value_pcodes |-> vp,
               matched |-> Matched(vp, b), orphaned |-> Orphaned(vp, b),
               missing |-> Missing(vp, b), duplicates |-> Duplicates(d.type, vs) ]

-----------------------------------------------------------------------------
(* audit_datasets.py *)

NoAudit == [reached |-> FALSE]

\* audit_dataset, lines 58-195: the stats it returns, with the sets it computed
audit_dataset(d, b, vs) ==
    LET level_boundaries == IF d.admin_level = NoKey THEN {} ELSE b
        stats0 == [ reached |-> TRUE, sets |-> FALSE,
                    boundary_count |-> Cardinality(level_boundaries), value_count |-> 0,
                    matched_pcodes |-> 0, orphaned_pcodes |-> 0, missing_pcodes |-> 0,
                    duplicate_pcodes |-> 0, null_values |-> 0, zero_values |-> 0,
                    matched |-> {}, orphaned |-> {}, missing |-> {}, value_pcodes |-> {} ]
        vp       == { r.admin_pcode : r \in BagToSet(vs) }
        matched  == vp \cap level_boundaries
        orphaned == vp \ level_boundaries
        missing  == level_boundaries \ vp
        nulls    == CountRows(vs, {r \in BagToSet(vs) : r.value = None})
        zeros    == CountRows(vs, {r \in BagToSet(vs) : r.value # None /\ r.value = Some(0)})
    IN  IF level_boundaries = {} THEN stats0
        ELSE IF BagCardinality(vs) = 0 THEN stats0
        ELSE [ stats0 EXCEPT
                 !.sets = TRUE,
                 !.value_count = BagCardinality(vs),
                 !.matched_pcodes = Cardinality(matched),
                 !.orphaned_pcodes = Cardinality(orphaned),
                 !.missing_pcodes = Cardinality(missing),
                 !.duplicate_pcodes = Duplicates(d.type, vs),
                 !.null_values = IF d.type = "numeric" THEN nulls ELSE 0,
                 !.zero_values = IF d.type = "numeric" THEN zeros ELSE 0,
                 !.matched = matched, !.orphaned = orphaned, !.missing = missing,
                 !.value_pcodes = vp ]

-----------------------------------------------------------------------------
(* Idle values of the parts a specification does not run *)

NoDataset == [none |-> TRUE]
UploadIdle ==
    /\ upc = "idle" /\ store = {} /\ layer = <<>>
    /\ job = [none |-> TRUE] /\ ustats = [none |-> TRUE] /\ snap = [none |-> TRUE]
CountryIdle == cpc = "idle" /\ crun = [none |-> TRUE]
ResolveIdle ==
    /\ CountryIdle
    /\ lpc = "idle" /\ lrun = [none |-> TRUE] /\ gdf = [none |-> TRUE]
    /\ resolved = [none |-> TRUE] /\ layer_records = {}
NormIdle ==
    /\ npc = "idle" /\ raw = <<>> /\ normalized = <<>> /\ renormalized = <<>>
    /\ ResolveIdle
HealthIdle ==
    /\ hpc = "idle" /\ boundaries = {} /\ values = EmptyBag /\ row = NoDataset
    /\ dataset = NoDataset /\ usage_count = 0 /\ health_metrics = NoHealth
    /\ cleaning_status = NoKey /\ calc = NoCalc /\ audit_stats = NoAudit

-----------------------------------------------------------------------------
(* SpecHealth: one dataset of the store, its values, the boundaries at its
   level; then one pass of main's loop body, or one audit *)

HealthInit ==
    /\ hpc = "input"
    /\ boundaries \in SUBSET BoundaryCodes
    /\ row \in Datasets
    /\ values = EmptyBag
    /\ dataset = NoDataset /\ usage_count = 0 /\ health_metrics = NoHealth
    /\ cleaning_status = NoKey /\ calc = NoCalc /\ audit_stats = NoAudit
    /\ UploadIdle /\ NormIdle

\* a value row is stored for the dataset (computed datasets store no value rows:
\* update_dataset_health_metadata.py line 59)
AddValue ==
    /\ hpc = "input"
    /\ BagCardinality(values) < MaxRows
    /\ ~ is_computed_dataset(row)
    /\ \E r \in RowsOfType(row.type) : values' = values (+) SetToBag({r})
    /\ UNCHANGED <<hpc, boundaries, row, dataset, usage_count, health_metrics,
                   cleaning_status, calc, audit_stats>>
    /\ UNCHANGED <<uvars, nvars>>

\* main, lines 274-304, for the dataset; u is what instance_datasets holds
UpdateHealth ==
    /\ hpc = "input"
    /\ \E u \in UsageCounts :
         LET h == calculate_health_metrics(row, boundaries, values)
             s == determine_cleaning_status(h, row, u)
         IN  /\ dataset' = row
             /\ usage_count' = u
             /\ health_metrics' = h
             /\ calc' = CalcLocals(row, boundaries, values)
             /\ IF h = NoHealth
                  THEN /\ hpc' = "skipped"
                       /\ UNCHANGED <<row, cleaning_status>>
                  ELSE /\ hpc' = "done"
                       /\ cleaning_status' = s
                       /\ row' = [row EXCEPT !.metadata.data_health = h,
                                             !.metadata.cleaning_status = s]
    /\ UNCHANGED <<boundaries, values, audit_stats>>
    /\ UNCHANGED <<uvars, nvars>>

\* audit_datasets.py: audit_dataset on the dataset
AuditDataset ==
    /\ hpc = "input"
    /\ hpc' = "audited"
    /\ dataset' = row
    /\ audit_stats' = audit_dataset(row, boundaries, values)
    /\ UNCHANGED <<boundaries, values, row, usage_count, health_metrics,
                   cleaning_status, calc>>
    /\ UNCHANGED <<uvars, nvars>>

HealthNext == AddValue \/ UpdateHealth \/ AuditDataset

SpecHealth == HealthInit /\ [][HealthNext]_vars

-----------------------------------------------------------------------------
(* SpecStatus: determine_cleaning_status applied to health records whose
   ratios are drawn from the fractions n / Den *)

Den       == 20       \* denominator of the ratios drawn
MaxErrors == 1        \* validation_errors drawn from 0..MaxErrors

DrawnHealth ==
    { HealthRecord(Some(0), Some(Den), Ratio(a, Den), Ratio(c, Den), One, e, k, NoKey) :
        a \in 0..Den, c \in 0..(Den + 1), e \in 0..MaxErrors, k \in BOOLEAN }

StatusInit ==
    /\ hpc = "drawn"
    /\ health_metrics \in DrawnHealth
    /\ usage_count \in UsageCounts
    /\ row = BaseDataset("categorical") /\ dataset = row
    /\ boundaries = {} /\ values = EmptyBag
    /\ cleaning_status = NoKey /\ calc = NoCalc /\ audit_stats = NoAudit
    /\ UploadIdle /\ NormIdle

\* main, line 287
Classify ==
    /\ hpc = "drawn"
    /\ hpc' = "classified"
    /\ cleaning_status' = determine_cleaning_status(health_metrics, dataset, usage_count)
    /\ UNCHANGED <<boundaries, values, row, dataset, usage_count, health_metrics,
                   calc, audit_stats>>
    /\ UNCHANGED <<uvars, nvars>>

StatusNext == Classify

SpecStatus == StatusInit /\ [][StatusNext]_vars

-----------------------------------------------------------------------------
(* Claims about the health calculator *)

ValueCodeSet == { r.admin_pcode : r \in BagToSet(values) }
RowCount     == BagCardinality(values)

\* C1: wherever calculate_health_metrics or audit_dataset compute the matched,
\* orphaned and missing sets, |matched| + |missing| = |B| and
\* |matched| + |orphaned| = |V|, for numeric and categorical datasets.
C1_SetPartition ==
    /\ calc.reached =>
         /\ Cardinality(calc.matched) + Cardinality(calc.missing) = Cardinality(boundaries)
         /\ Cardinality(calc.matched) + Cardinality(calc.orphaned) = Cardinality(ValueCodeSet)
    /\ (audit_stats.reached /\ audit_stats.sets) =>
         /\ audit_stats.matched_pcodes + audit_stats.missing_pcodes = Cardinality(boundaries)
         /\ audit_stats.matched_pcodes + audit_stats.orphaned_pcodes = Cardinality(ValueCodeSet)
C1_Witness ==
    /\ hpc = "done" /\ calc.reached /\ dataset.type = "categorical"
    /\ calc.matched # {} /\ calc.orphaned # {} /\ calc.missing # {}

\* the ordered rule as the specification words it
SpecRule(h) ==
    IF h.is_computed THEN "ready"
    ELSE IF h.alignment_rate[1] * 100 >= 95 * h.alignment_rate[2]
            /\ h.completeness[1] * 100 >= 95 * h.completeness[2]
            /\ h.validation_errors = 0 THEN "ready"
    ELSE IF h.alignment_rate[1] * 100 >= 85 * h.alignment_rate[2]
            /\ h.completeness[1] * 100 >= 85 * h.completeness[2] THEN "in_progress"
    ELSE "needs_review"

C8_Scenario ==
    /\ hpc = "done" /\ dataset.type = "numeric"
    /\ boundaries = {"A", "B", "C"}
    /\ values = SetToBag({ NumRow("A", Some(10)), NumRow("B", Some(0)),
                           NumRow("C", None), NumRow("D", Some(5)) })
C8_Sets ==
    /\ calc.reached
    /\ calc.matched = {"A", "B", "C"} /\ calc.orphaned = {"D"} /\ calc.missing = {}
    /\ RatioEq(health_metrics.alignment_rate, One)
\* C8 as claimed: completeness = 1/3.
C8_AsClaimed ==
    C8_Scenario =>
        /\ C8_Sets
        /\ RatioEq(health_metrics.completeness, Ratio(1, 3))
        /\ cleaning_status = "needs_review"
\* C8 amended: in the scenario matched = {A,B,C}, orphaned = {D}, missing = {},
\* alignment_rate = 1.0, completeness = 2/4 = 0.5 (rows A and D carry a value
\* that is neither null nor zero), and the classification is needs_review.
C8_ScenarioResult ==
    C8_Scenario =>
        /\ C8_Sets
        /\ RatioEq(health_metrics.completeness, Ratio(1, 2))
        /\ cleaning_status = "needs_review"
C8_Witness == C8_Scenario /\ usage_count = 1

\* a dataset whose level has 0 boundaries and which has 0 values, scored
C9_Scenario == hpc = "done" /\ boundaries = {} /\ RowCount = 0
DuplicateRowCount ==
    RowCount - Cardinality({ <<r.admin_pcode, r.category>> : r \in BagToSet(values) })
\* C10: for a non-empty list of value rows the reported uniqueness is
\* 1 - duplicate_row_count / total_row_count, duplicate_row_count being the
\* number of rows that repeat the key of an earlier row.
C10_Uniqueness ==
    (hpc = "done" /\ calc.reached) =>
        RatioEq(health_metrics.uniqueness, Ratio(RowCount - DuplicateRowCount, RowCount))

\* C11: for a dataset with at least one boundary and one value row the reported
\* validation error count is |orphaned| + duplicate_row_count, duplicate_row_count
\* being the number of value rows that repeat the key of an earlier row.
C11_ValidationErrors ==
    (hpc = "done" /\ calc.reached) =>
        health_metrics.validation_errors = Cardinality(calc.orphaned) + DuplicateRowCount

InUnitInterval(r) == r[1] >= 0 /\ r[1] <= r[2]
\* C12: every health record has alignment_rate, coverage, completeness and uniqueness
\* within [0,1].
C12_RatiosInUnitInterval ==
    hpc = "done" =>
        /\ InUnitInterval(health_metrics.alignment_rate)
        /\ InUnitInterval(health_metrics.coverage)
        /\ InUnitInterval(health_metrics.completeness)
        /\ InUnitInterval(health_metrics.uniqueness)

\* C13: for a categorical dataset with boundaries and value rows,
\* completeness = |matched| / |B|.
C13_CategoricalCompleteness ==
    (hpc = "done" /\ calc.reached /\ dataset.type = "categorical") =>
        RatioEq(health_metrics.completeness,
                Ratio(Cardinality(calc.matched), Cardinality(boundaries)))

\* line 119: metadata.get("readiness") or metadata.get("cleaning_status"), compared to "ready"
MarkedReady(d) ==
    (IF d.metadata.readiness # NoKey THEN d.metadata.readiness
     ELSE d.metadata.cleaning_status) = "ready"
AllOnesAndReady ==
    /\ RatioEq(health_metrics.alignment_rate, One)
    /\ RatioEq(health_metrics.coverage, One)
    /\ RatioEq(health_metrics.completeness, One)
    /\ RatioEq(health_metrics.uniqueness, One)
    /\ cleaning_status = "ready"
-----------------------------------------------------------------------------
(* SpecRuns: runs of main's loop body on one dataset, interleaved with changes
   to its value rows *)

MaxRunRows == 2      \* value rows of the dataset at any time

\* the boundary sets of the dataset's level explored over several runs
RunBoundaries == { {}, {"A"}, {"A", "B", "C"} }

RunsInit ==
    /\ hpc = "input"
    /\ boundaries \in RunBoundaries
    /\ row \in Datasets
    /\ values = EmptyBag
    /\ usage_count \in UsageCounts
    /\ dataset = NoDataset /\ health_metrics = NoHealth
    /\ cleaning_status = NoKey /\ calc = NoCalc /\ audit_stats = NoAudit
    /\ upc = "idle" /\ store = {} /\ layer = <<>>
    /\ job = [none |-> TRUE] /\ ustats = [none |-> TRUE]
    /\ snap = [row |-> row]
    /\ NormIdle

\* a value row is stored for the dataset between two runs
StoreValue ==
    /\ BagCardinality(values) < MaxRunRows
    /\ ~ is_computed_dataset(row)
    /\ \E r \in RowsOfType(row.type) : values' = values (+) SetToBag({r})
    /\ hpc' = "input"
    /\ UNCHANGED <<boundaries, row, dataset, usage_count, health_metrics,
                   cleaning_status, calc, audit_stats>>
    /\ UNCHANGED <<uvars, nvars>>

\* a value row of the dataset is deleted between two runs
DeleteValue ==
    /\ \E r \in BagToSet(values) : values' = values (-) SetToBag({r})
    /\ hpc' = "input"
    /\ UNCHANGED <<boundaries, row, dataset, usage_count, health_metrics,
                   cleaning_status, calc, audit_stats>>
    /\ UNCHANGED <<uvars, nvars>>

\* the run writing a metadata object that holds the two health keys only
RunUpdateReplacesMetadata ==
    /\ LET h == calculate_health_metrics(row, boundaries, values)
           s == determine_cleaning_status(h, row, usage_count)
       IN  /\ dataset' = row
           /\ health_metrics' = h
           /\ calc' = CalcLocals(row, boundaries, values)
           /\ IF h = NoHealth
                THEN /\ hpc' = "skipped"
                     /\ UNCHANGED <<row, cleaning_status>>
                ELSE /\ hpc' = "done"
                     /\ cleaning_status' = s
                     /\ row' = [row EXCEPT !.metadata = [EmptyMeta EXCEPT !.data_health = h,
                                                                          !.cleaning_status = s]]
    /\ UNCHANGED <<boundaries, values, usage_count, audit_stats>>
    /\ UNCHANGED <<uvars, nvars>>

\* main, lines 274-304, for the dataset: a run of the script, the first or a later one
RunUpdate ==
    /\ LET h == calculate_health_metrics(row, boundaries, values)
           s == determine_cleaning_status(h, row, usage_count)
       IN  /\ dataset' = row
           /\ health_metrics' = h
           /\ calc' = CalcLocals(row, boundaries, values)
           /\ IF h = NoHealth
                THEN /\ hpc' = "skipped"
                     /\ UNCHANGED <<row, cleaning_status>>
                ELSE /\ hpc' = "done"
                     /\ cleaning_status' = s
                     /\ row' = [row EXCEPT !.metadata.data_health = h,
                                           !.metadata.cleaning_status = s]
    /\ UNCHANGED <<boundaries, values, usage_count, audit_stats>>
    /\ UNCHANGED <<uvars, nvars>>

RunsNext == StoreValue \/ DeleteValue \/ RunUpdate

SpecRuns == RunsInit /\ [][RunsNext]_vars

\* C15: what a run writes equals what a first-ever run on the current boundaries,
\* values and the metadata as first supplied would write, whatever earlier runs cached.
C15_RecomputedFresh ==
    hpc = "done" =>
        LET fresh == calculate_health_metrics(snap.row, boundaries, values)
        IN  /\ row.metadata.data_health = fresh
            /\ row.metadata.cleaning_status =
                   determine_cleaning_status(fresh, snap.row, usage_count)

\* the metadata keys the run does not compute
OtherMetadataKeys == DOMAIN EmptyMeta \ {"data_health", "cleaning_status"}

\* C30: the write-back of a run changes only metadata.data_health and
\* metadata.cleaning_status: every other metadata key and every other column of the
\* dataset is as the run read it, and a dataset skipped for lack of an admin_level
\* is left as it was read.
C30_OnlyHealthKeysWritten ==
    /\ hpc = "done"
         => /\ \A k \in OtherMetadataKeys : row.metadata[k] = dataset.metadata[k]
            /\ [row EXCEPT !.metadata = dataset.metadata] = dataset
            /\ row.metadata.data_health = health_metrics
            /\ row.metadata.cleaning_status = cleaning_status
    /\ hpc = "skipped" => row = dataset

\* a run has overwritten the data_health an earlier run cached, on a dataset whose
\* metadata holds a key of its own
C30_Witness ==
    /\ hpc = "done"
    /\ dataset.metadata.data_health # NoHealth
    /\ row.metadata.data_health # dataset.metadata.data_health
    /\ \E k \in OtherMetadataKeys : dataset.metadata[k] # EmptyMeta[k]

-----------------------------------------------------------------------------
(* The admin_boundaries table and the boundary uploaders *)

BatchSize == 2        \* batch_size of the upload loops (100 or 50 in the scripts), scaled down
MaxLayer  == 4        \* rows of the source layer
MaxRuns   == 2        \* times the operator runs the same import in a row

CountryX == "X"       \* the country being imported
CountryY == "Y"       \* another country of the store
Level    == "ADM4"    \* the level being imported
Pcodes   == {"P1", "P2", "P3"}

Min(a, b) == IF a <= b THEN a ELSE b
Range(f)  == { f[k] : k \in DOMAIN f }

\* a row of the source layer; an empty admin_pcode is the unusable row
LayerRow(c) == [admin_pcode |-> c, name |-> "new", parent_pcode |-> NoKey, geometry |-> "polygon"]
\* layers: usable rows carry distinct codes, unusable rows may lie anywhere
Layers ==
    { l \in UNION { [1..n -> {LayerRow(c) : c \in Pcodes \cup {""}}] : n \in 1..MaxLayer } :
        \A j, k \in DOMAIN l : (j # k /\ l[j].admin_pcode # "") => l[j] # l[k] }

OldRecord(c, country, level) ==
    [ admin_pcode |-> c, admin_level |-> level, name |-> "old", parent_pcode |-> NoKey,
      country_id |-> country, geometry |-> "SRID=4326;old", metadata |-> "old" ]
\* what admin_boundaries may hold before the import (admin_pcode is its unique key)
InitialStores ==
    { EmptyBag,
      SetToBag({OldRecord("P1", CountryY, Level), OldRecord("Q", CountryX, "ADM3")}),
      SetToBag({OldRecord("Q", CountryX, Level), OldRecord("P1", CountryX, Level)}) }

UniquePcodes(st) ==
    \A r1, r2 \in BagToSet(st) :
        /\ st[r1] = 1
        /\ r1.admin_pcode = r2.admin_pcode => r1 = r2

\* rows inserted with no conflict handling
InsertOnly(st, recs) == st (+) SetToBag(Range(recs))
\* supabase.table("admin_boundaries").upsert(batch, on_conflict="admin_pcode"):
\* a row with the same admin_pcode is overwritten in every column sent
Upsert(st, recs) ==
    LET codes == { recs[k].admin_pcode : k \in DOMAIN recs }
        kept  == { x \in BagToSet(st) : x.admin_pcode \notin codes }
    IN  [r \in kept |-> st[r]] (+) SetToBag(Range(recs))

\* one statement cannot upsert the same key twice: the statement fails
BatchHasDuplicates(recs) ==
    \E j, k \in DOMAIN recs : j # k /\ recs[j].admin_pcode = recs[k].admin_pcode

\* the rows of the table at one (country, admin_level)
AtLevel(st, country, level) ==
    { r \in BagToSet(st) : r.country_id = country /\ r.admin_level = level }

\* the record the RPC import_admin_boundaries stores for a feature
RpcRecord(f, country, level) ==
    [ admin_pcode |-> f.admin_pcode, admin_level |-> level, name |-> f.name,
      parent_pcode |-> f.parent_pcode, country_id |-> country,
      geometry |-> f.geometry, metadata |-> "rpc" ]

\* RPC import_admin_boundaries(p_country_id, p_admin_level, p_boundaries, p_clear_existing):
\* clears the (country, level) rows when asked, then merges the features by admin_pcode
import_admin_boundaries(st, country, level, feats, clear) ==
    LET gone    == IF clear THEN AtLevel(st, country, level) ELSE {}
        cleared == [r \in BagToSet(st) \ gone |-> st[r]]
    IN  Upsert(cleared, [k \in DOMAIN feats |-> RpcRecord(feats[k], country, level)])

\* a slice that stops one record short of the end of the list
SliceDropsLast(seq, i) == SubSeq(seq, i + 1, Min(i + BatchSize, Len(seq) - 1))
\* records[i : i + batch_size]
Slice(seq, i) == SubSeq(seq, i + 1, Min(i + BatchSize, Len(seq)))

\* the non-empty proper sub-sequences of a batch: what a batch with row errors wrote
PartsOf(batch) ==
    { SelectSeq(batch, LAMBDA x : x \in keep) :
        keep \in (SUBSET Range(batch)) \ {{}, Range(batch)} }

-----------------------------------------------------------------------------
(* Record preparation of the uploaders *)

\* row.geometry.wkt with the SRID prefix
Ewkt(g) == IF g = "polygon" THEN "SRID=4326;POLYGON" ELSE "SRID=4326;OTHER"

\* upload_boundaries_to_supabase.py, lines 55-79
FileUsable(r) == r.admin_pcode # ""
FileRecord(r) ==
    [ admin_pcode |-> r.admin_pcode, admin_level |-> Level,
      name |-> IF r.name # "" /\ r.name # NoKey THEN r.name ELSE NoKey,
      parent_pcode |-> r.parent_pcode, country_id |-> CountryX,
      geometry |-> Ewkt(r.geometry), metadata |-> "script" ]

\* upload_batch.py, lines 45-77
GeojsonUsable(r) == r.admin_pcode # "" /\ r.admin_pcode # "None"
GeojsonRecord(r) ==
    [ admin_pcode |-> r.admin_pcode, admin_level |-> Level,
      name |-> IF r.name # "" /\ r.name # NoKey /\ r.name # "None" THEN r.name ELSE NoKey,
      parent_pcode |-> IF r.parent_pcode # "None" THEN r.parent_pcode ELSE NoKey,
      country_id |-> CountryX, geometry |-> Ewkt(r.geometry), metadata |-> "script" ]

\* reimport_all_boundaries.py, lines 625-644
LevelUsable(r) == r.admin_pcode # ""
LevelFeature(r) ==
    [ admin_pcode |-> r.admin_pcode, name |-> r.name, parent_pcode |-> r.parent_pcode,
      geometry |-> r.geometry ]

\* import_sri_lanka_adm4_boundaries.py, lines 123-138
LkaUsable(r) == r.admin_pcode \notin {"", "None", "nan"}
LkaFeature(r) ==
    [ admin_pcode |-> r.admin_pcode, name |-> r.name, parent_pcode |-> r.parent_pcode,
      geometry |-> r.geometry ]

\* add_palestine_data.py, lines 281-300 (the layer has no parent_pcode column)
PalestineUsable(r) == r.admin_pcode # "" /\ r.geometry # NoKey /\ r.geometry # "empty"
PalestineFeature(r) ==
    [ admin_pcode |-> r.admin_pcode, name |-> r.name, parent_pcode |-> "",
      geometry |-> r.geometry ]

Kinds == {"file", "geojson", "level", "lka", "palestine"}

\* the record an import of the given kind stores for a usable row
StoredRecord(kind, r) ==
    CASE kind = "file"      -> FileRecord(r)
      [] kind = "geojson"   -> GeojsonRecord(r)
      [] kind = "level"     -> RpcRecord(LevelFeature(r), CountryX, Level)
      [] kind = "lka"       -> RpcRecord(LkaFeature(r), CountryX, Level)
      [] kind = "palestine" -> RpcRecord(PalestineFeature(r), CountryX, Level)
Usable(kind, r) ==
    CASE kind = "file"      -> FileUsable(r)
      [] kind = "geojson"   -> GeojsonUsable(r)
      [] kind = "level"     -> LevelUsable(r)
      [] kind = "lka"       -> LkaUsable(r)
      [] kind = "palestine" -> PalestineUsable(r)

\* the sequence the batch loop of each uploader runs over
Prepared(kind, l, st) ==
    CASE kind = "file"      -> LET usable == SelectSeq(l, FileUsable)
            IN  [k \in DOMAIN usable |-> FileRecord(usable[k])]
      [] kind = "geojson"   -> LET usable == SelectSeq(l, GeojsonUsable)
            IN  [k \in DOMAIN usable |-> GeojsonRecord(usable[k])]
      [] kind = "level"     -> LET usable == SelectSeq(l, LevelUsable)
            IN  [k \in DOMAIN usable |-> LevelFeature(usable[k])]
      [] kind = "lka"       ->
            LET existing_pcodes == { b.admin_pcode : b \in AtLevel(st, CountryX, Level) }
                fresh == SelectSeq(l, LAMBDA r : r.admin_pcode \notin existing_pcodes)
                usable == SelectSeq(fresh, LkaUsable)
            IN  [k \in DOMAIN usable |-> LkaFeature(usable[k])]
      [] kind = "palestine" -> l

-----------------------------------------------------------------------------
(* SpecUpload: one import of a layer into (CountryX, Level), run MaxRuns times *)

ZeroStats == [uploaded |-> 0, skipped |-> 0, errors |-> 0]

UploadInit ==
    /\ upc = "start"
    /\ store \in InitialStores
    /\ layer \in Layers
    /\ job \in [kind : Kinds, run : {1}, i : {0}, records : {<<>>}, log : {<<>>}]
    /\ ustats = ZeroStats
    /\ snap = [before |-> store, after1 |-> EmptyBag, clean1 |-> FALSE]
    /\ HealthIdle /\ NormIdle

Logged(outcome, clear, n) ==
    Append(job.log, [run |-> job.run, i |-> job.i, outcome |-> outcome, clear |-> clear, n |-> n])

\* the record preparation before the batch loop
StartRun ==
    /\ upc = "start"
    /\ upc' = "loop"
    /\ job' = [job EXCEPT !.records = Prepared(job.kind, layer, store), !.i = 0]
    /\ ustats' = [ZeroStats EXCEPT !.skipped =
                     IF job.kind \in {"file", "level"}
                     THEN Len(layer) - Len(SelectSeq(layer, FileUsable)) ELSE 0]
    /\ UNCHANGED <<store, layer, snap>>
    /\ UNCHANGED <<hvars, nvars>>

\* upload_boundaries_to_supabase.py, lines 89-101: one pass of the batch loop
FileBatch ==
    /\ upc = "loop" /\ job.kind = "file" /\ job.i < Len(job.records)
    /\ LET batch == Slice(job.records, job.i)
       IN  \E outcome \in {"ok", "error"} :
             /\ outcome = "ok" => ~ BatchHasDuplicates(batch)
             /\ store' = IF outcome = "ok" THEN Upsert(store, batch) ELSE store
             /\ ustats' = IF outcome = "ok"
                            THEN [ustats EXCEPT !.uploaded = @ + Len(batch)]
                            ELSE [ustats EXCEPT !.errors = @ + Len(batch)]
             /\ job' = [job EXCEPT !.i = @ + BatchSize,
                                   !.log = Logged(outcome, FALSE, Len(batch))]
    /\ UNCHANGED <<upc, layer, snap>>
    /\ UNCHANGED <<hvars, nvars>>

\* upload_batch.py, lines 83-104: the batch upsert, and on its failure one upsert per record
GeojsonBatch ==
    /\ upc = "loop" /\ job.kind = "geojson" /\ job.i < Len(job.records)
    /\ LET batch == Slice(job.records, job.i)
       IN  \/ /\ ~ BatchHasDuplicates(batch)
              /\ store' = Upsert(store, batch)
              /\ ustats' = [ustats EXCEPT !.uploaded = @ + Len(batch)]
              /\ job' = [job EXCEPT !.i = @ + BatchSize,
                                    !.log = Logged("ok", FALSE, Len(batch))]
           \/ \E written \in SUBSET Range(batch) :
                LET part == SelectSeq(batch, LAMBDA x : x \in written)
                IN  /\ store' = Upsert(store, part)
                    /\ ustats' = [ustats EXCEPT !.uploaded = @ + Len(part)]
                    /\ job' = [job EXCEPT !.i = @ + BatchSize,
                                          !.log = Logged("fallback", FALSE, Len(part))]
    /\ UNCHANGED <<upc, layer, snap>>
    /\ UNCHANGED <<hvars, nvars>>

\* the effect of one RPC call on the table and on the counters the caller keeps;
\* count_nodata: what the caller adds to 'uploaded' when the response has no data
RpcCall(feats, clear, count_nodata, count_errors) ==
    \/ /\ store' = import_admin_boundaries(store, CountryX, Level, feats, clear)
       /\ ustats' = [ustats EXCEPT !.uploaded = @ + Len(feats)]
       /\ job' = [job EXCEPT !.i = @ + BatchSize, !.log = Logged("ok", clear, Len(feats))]
    \/ /\ store' = import_admin_boundaries(store, CountryX, Level, feats, clear)
       /\ ustats' = [ustats EXCEPT !.uploaded = @ + count_nodata]
       /\ job' = [job EXCEPT !.i = @ + BatchSize, !.log = Logged("nodata", clear, Len(feats))]
    \/ /\ store' = store
       /\ ustats' = [ustats EXCEPT !.errors = @ + count_errors]
       /\ job' = [job EXCEPT !.i = @ + BatchSize, !.log = Logged("error", clear, 0)]
    \/ \E part \in PartsOf(feats) :
         /\ store' = import_admin_boundaries(store, CountryX, Level, part, clear)
         /\ ustats' = [ustats EXCEPT !.uploaded = @ + Len(part),
                                     !.errors = @ + IF count_errors > 0
                                                      THEN Len(feats) - Len(part) ELSE 0]
         /\ job' = [job EXCEPT !.i = @ + BatchSize,
                               !.log = Logged("partial", clear, Len(part))]

\* the batch loop of upload_boundaries_level leaving the loop at the first failed call
LevelBatchStopsOnError ==
    /\ upc = "loop" /\ job.kind = "level" /\ job.i < Len(job.records)
    /\ LET batch == Slice(job.records, job.i)
       IN  \/ /\ store' = import_admin_boundaries(store, CountryX, Level, batch, FALSE)
              /\ ustats' = [ustats EXCEPT !.uploaded = @ + Len(batch)]
              /\ job' = [job EXCEPT !.i = @ + BatchSize,
                                    !.log = Logged("ok", FALSE, Len(batch))]
           \/ /\ store' = store
              /\ ustats' = [ustats EXCEPT !.errors = @ + Len(batch)]
              /\ job' = [job EXCEPT !.i = Len(job.records),
                                    !.log = Logged("error", FALSE, 0)]
    /\ UNCHANGED <<upc, layer, snap>>
    /\ UNCHANGED <<hvars, nvars>>

\* reimport_all_boundaries.py, lines 654-690: one pass of the batch loop
LevelBatch ==
    /\ upc = "loop" /\ job.kind = "level" /\ job.i < Len(job.records)
    /\ LET batch == Slice(job.records, job.i)
       IN  RpcCall(batch, FALSE, 0, Len(batch))
    /\ UNCHANGED <<upc, layer, snap>>
    /\ UNCHANGED <<hvars, nvars>>

\* import_sri_lanka_adm4_boundaries.py, lines 150-172: one pass of the batch loop
LkaBatch ==
    /\ upc = "loop" /\ job.kind = "lka" /\ job.i < Len(job.records)
    /\ LET batch == Slice(job.records, job.i)
       IN  RpcCall(batch, FALSE, 0, 0)
    /\ UNCHANGED <<upc, layer, snap>>
    /\ UNCHANGED <<hvars, nvars>>

\* add_palestine_data.py, lines 276-331: one pass of the batch loop
PalestineBatch ==
    /\ upc = "loop" /\ job.kind = "palestine" /\ job.i < Len(job.records)
    /\ LET batch    == Slice(job.records, job.i)
           usable   == SelectSeq(batch, PalestineUsable)
           features == [k \in DOMAIN usable |-> PalestineFeature(usable[k])]
       IN  IF features = <<>>
             THEN /\ job' = [job EXCEPT !.i = @ + BatchSize]
                  /\ UNCHANGED <<store, ustats>>
             ELSE RpcCall(features, job.i = 0, Len(features), 0)
    /\ UNCHANGED <<upc, layer, snap>>
    /\ UNCHANGED <<hvars, nvars>>

\* the loop is over: the function returns
Finish ==
    /\ upc = "loop" /\ job.i >= Len(job.records)
    /\ upc' = "done"
    /\ snap' = IF job.run = 1
                 THEN [snap EXCEPT !.after1 = store,
                                   !.clean1 = \A k \in DOMAIN job.log :
                                                 job.log[k].outcome \in {"ok", "nodata"}]
                 ELSE snap
    /\ UNCHANGED <<store, layer, job, ustats>>
    /\ UNCHANGED <<hvars, nvars>>

\* the operator runs the same script on the same layer again
Rerun ==
    /\ upc = "done" /\ job.run < MaxRuns
    /\ upc' = "start"
    /\ job' = [job EXCEPT !.run = @ + 1, !.i = 0, !.records = <<>>]
    /\ ustats' = ZeroStats
    /\ UNCHANGED <<store, layer, snap>>
    /\ UNCHANGED <<hvars, nvars>>

UploadNext ==
    \/ StartRun \/ FileBatch \/ GeojsonBatch \/ LevelBatch \/ LkaBatch \/ PalestineBatch
    \/ Finish \/ Rerun

SpecUpload == UploadInit /\ [][UploadNext]_vars

-----------------------------------------------------------------------------
(* Claims about the boundary uploaders *)

\* the records the import of the layer stores when every usable row is written
ImportRecords(kind) ==
    { StoredRecord(kind, layer[k]) : k \in { j \in DOMAIN layer : Usable(kind, layer[j]) } }

\* C4: after an import with clear_existing=true (add_palestine_data) in which every
\* submitted batch was written and at least one valid row exists, the store holds
\* exactly the import's records at (country, admin_level), whatever it held before,
\* however the rows split into batches and wherever the valid rows lie in the layer.
C4_ClearThenWrite ==
    ( /\ upc = "done" /\ job.kind = "palestine" /\ job.run = 1
      /\ snap.clean1
      /\ ImportRecords("palestine") # {} )
    => AtLevel(store, CountryX, Level) = ImportRecords("palestine")

\* C5: when the first upload of the record set had no failed batch, the store stays equal
\* to the store after the first upload throughout and after every later upload of the
\* same set with clear_existing=false (upload_boundaries_file, the Sri Lanka importer):
\* same record count and same content for every record.
C5_IdempotentUpsert ==
    ( /\ job.kind \in {"file", "lka"}
      /\ job.run >= 2
      /\ snap.clean1 )
    => store = snap.after1

\* the second upload is over, it wrote records again, over a table that was not empty
C5_Witness ==
    /\ upc = "done" /\ job.kind = "file" /\ job.run = 2
    /\ snap.clean1
    /\ snap.before # EmptyBag
    /\ ustats.uploaded >= 2
    /\ \E k \in DOMAIN job.log : job.log[k].run = 2 /\ job.log[k].outcome = "ok"

\* C6 as stated: no step of an import leaves two boundaries with the same admin_pcode,
\* and no step removes or changes a record of the import that the store already holds.
C6_AsClaimed ==
    [][ /\ UniquePcodes(store')
        /\ \A r \in BagToSet(store) \cap ImportRecords(job.kind) : r \in BagToSet(store')
      ]_vars

\* the first batch of add_palestine_data, the only submission with clear_existing=true
ClearingSubmission ==
    /\ upc = "loop" /\ job.kind = "palestine" /\ job.i = 0

\* C6: no step of an import leaves two boundaries with the same admin_pcode, and a record
\* of the import that the store already holds keeps its content through every submission
\* made with clear_existing=false; the submission with clear_existing=true may remove it.
C6_Retriable ==
    [][ /\ UniquePcodes(store')
        /\ \A r \in BagToSet(store) \cap ImportRecords(job.kind) :
              r \in BagToSet(store') \/ ClearingSubmission
      ]_vars

\* a batch that was written in part in the first run has been re-submitted and written
C6_Witness ==
    /\ job.kind \in {"level", "geojson", "palestine"}
    /\ \E j, k \in DOMAIN job.log :
          /\ job.log[j].run = 1 /\ job.log[k].run = 2
          /\ job.log[j].i = job.log[k].i
          /\ job.log[j].outcome \in {"partial", "fallback"}
          /\ job.log[j].n >= 1 /\ job.log[j].n < job.log[k].n
          /\ job.log[k].outcome = "ok"
    /\ BagToSet(store) \cap ImportRecords(job.kind) # {}

-----------------------------------------------------------------------------
(* The Geometry Normalizer of reimport_all_boundaries.py *)

MaxRaw == 3          \* rows of a raw layer

NaN == "<nan>"       \* a missing cell of a float/object column
\* Series.astype(str): None becomes "None", NaN becomes "nan", a string stays itself
AsStr(v) == IF v = NoKey THEN "None" ELSE IF v = NaN THEN "nan" ELSE v

Geometry(t, ok) == [geom_type |-> t, is_valid |-> ok]
NoGeometry == Geometry("None", FALSE)
RawRow(c, g) == [pcode |-> c, name |-> "n", geometry |-> g]
RawRows ==
    { RawRow(c, g) : c \in {"P1", "P2"},
                     g \in {Geometry("Polygon", TRUE), Geometry("MultiPolygon", FALSE),
                            Geometry("Point", TRUE), NoGeometry} }
    \cup { RawRow(c, Geometry("Polygon", TRUE)) : c \in {"", "None", NoKey, NaN} }
RawLayers == UNION { [1..n -> RawRows] : n \in 1..MaxRaw }

\* result_data: the standardized frame built from the raw columns
Standardize(r) ==
    [ admin_pcode |-> AsStr(r.pcode), admin_level |-> Level, name |-> AsStr(r.name),
      parent_pcode |-> NoKey, geometry |-> r.geometry ]

RECURSIVE PickRows(_, _, _)
\* the rows of a frame at the kept positions, in the frame's order
PickRows(rows, keep, n) ==
    IF n = 0 THEN <<>>
    ELSE IF n \in keep THEN Append(PickRows(rows, keep, n - 1), rows[n])
    ELSE PickRows(rows, keep, n - 1)

\* the positions whose admin_pcode occurred at an earlier position
LaterDuplicates(rows) ==
    { k \in DOMAIN rows : \E j \in 1..(k - 1) : rows[j].admin_pcode = rows[k].admin_pcode }

\* a pass that removes the last duplicate row only
drop_one_duplicate(rows) ==
    LET dups == LaterDuplicates(rows)
    IN  IF dups = {} THEN rows
        ELSE PickRows(rows, DOMAIN rows \ { CHOOSE k \in dups : \A j \in dups : j <= k },
                      Len(rows))
\* DataFrame.drop_duplicates(subset=["admin_pcode"]): the first row of each code stays
drop_duplicates(rows) ==
    PickRows(rows, DOMAIN rows \ LaterDuplicates(rows), Len(rows))

\* admin_pcode.notna(), != "None", != "": the column holds strings, so notna() passes all
CodeFilter(rows) ==
    SelectSeq(rows, LAMBDA r : r.admin_pcode # "None" /\ r.admin_pcode # "")
is_polygon(g) == g # NoGeometry /\ g.geom_type \in {"Polygon", "MultiPolygon"}
PolygonFilter(rows) == SelectSeq(rows, LAMBDA r : is_polygon(r.geometry))
ValidFilter(rows) == SelectSeq(rows, LAMBDA r : r.geometry.is_valid)

NoFrame == [none |-> TRUE, rows |-> <<>>]
Frame(rows) == IF Len(rows) = 0 THEN NoFrame ELSE [none |-> FALSE, rows |-> rows]

Variants == {"single_file", "admin_level_column", "pcode_column", "hdx_download"}
\* the filter-and-deduplicate steps of the processors: process_single_file_level,
\* process_level_from_admin_level_column, process_level_from_pcode_column
\* (reimport_all_boundaries.py) and process_boundaries (download_hdx_boundaries.py)
FilterAndDeduplicate(variant, rows) ==
    CASE variant = "single_file" ->
           Frame(drop_duplicates(ValidFilter(PolygonFilter(CodeFilter(rows)))))
      [] variant = "admin_level_column" ->
           Frame(ValidFilter(drop_duplicates(PolygonFilter(CodeFilter(rows)))))
      [] variant = "pcode_column" ->
           Frame(drop_duplicates(ValidFilter(PolygonFilter(rows))))
      [] variant = "hdx_download" ->
           Frame(drop_duplicates(CodeFilter(rows)))

\* the standardized frame of a raw layer
result_gdf(rawrows) == [k \in DOMAIN rawrows |-> Standardize(rawrows[k])]

\* gdf[gdf[pcode_col].notna()] on the raw column, before astype(str)
NotNaRows(rawrows) == SelectSeq(rawrows, LAMBDA r : r.pcode # NoKey /\ r.pcode # NaN)

process_level(variant, rawrows) ==
    IF variant = "pcode_column"
      THEN FilterAndDeduplicate(variant, result_gdf(NotNaRows(rawrows)))
      ELSE FilterAndDeduplicate(variant, result_gdf(rawrows))

NormInit ==
    /\ npc = "raw"
    /\ raw \in [variant : Variants, rows : RawLayers]
    /\ normalized = NoFrame
    /\ renormalized = NoFrame
    /\ HealthIdle /\ UploadIdle /\ ResolveIdle

\* one run of the processor on the raw layer
Normalize ==
    /\ npc = "raw"
    /\ normalized' = process_level(raw.variant, raw.rows)
    /\ npc' = "normalized"
    /\ UNCHANGED <<raw, renormalized>>
    /\ UNCHANGED <<hvars, uvars, rvars, cvars>>

\* the filter-and-deduplicate steps applied to the processor's own output
Renormalize ==
    /\ npc = "normalized" /\ ~ normalized.none
    /\ renormalized' = FilterAndDeduplicate(raw.variant, normalized.rows)
    /\ npc' = "renormalized"
    /\ UNCHANGED <<raw, normalized>>
    /\ UNCHANGED <<hvars, uvars, rvars, cvars>>

\* a second run of the processor on the same raw layer
SecondRun ==
    /\ npc = "normalized"
    /\ renormalized' = process_level(raw.variant, raw.rows)
    /\ npc' = "second_run"
    /\ UNCHANGED <<raw, normalized>>
    /\ UNCHANGED <<hvars, uvars, rvars, cvars>>

NormNext == Normalize \/ Renormalize \/ SecondRun

SpecNorm == NormInit /\ [][NormNext]_vars

\* C7: the filter-and-deduplicate steps applied to the normalizer's output return that
\* output unchanged, and a second run on the same raw layer returns the same records.
C7_Idempotent ==
    npc \in {"renormalized", "second_run"} => renormalized = normalized

\* the steps ran on an output from which the first run removed a duplicate code and
\* an unusable row
C7_Witness ==
    /\ npc = "renormalized"
    /\ Len(normalized.rows) >= 1
    /\ LaterDuplicates(PolygonFilter(CodeFilter(result_gdf(raw.rows)))) # {}
    /\ \E k \in DOMAIN raw.rows : ~ is_polygon(raw.rows[k].geometry)

-----------------------------------------------------------------------------
(* Strings: the Python string methods the column search uses *)

UpperAlphabet == "ABCDEFGHIJKLMNOPQRSTUVWXYZ"
LowerAlphabet == "abcdefghijklmnopqrstuvwxyz"
CharAt(s, i) == SubSeq(s, i, i)
\* the position of a character in an alphabet, 0 when it is not in it
IndexIn(alphabet, c) ==
    IF \E i \in 1..Len(alphabet) : CharAt(alphabet, i) = c
      THEN CHOOSE i \in 1..Len(alphabet) : CharAt(alphabet, i) = c
      ELSE 0
\* the peer of every character of the alphabet 'from' in the alphabet 'to'
Peers(from, to) == [c \in { CharAt(from, i) : i \in 1..Len(from) } |-> CharAt(to, IndexIn(from, c))]
ToLower == Peers(UpperAlphabet, LowerAlphabet)
ToUpper == Peers(LowerAlphabet, UpperAlphabet)
\* every character of s that has a peer replaced by it
Translate(s, peers) ==
    LET RECURSIVE Tr(_)
        Tr(i) == IF i > Len(s) THEN ""
                 ELSE LET c == CharAt(s, i)
                      IN  (IF c \in DOMAIN peers THEN peers[c] ELSE c) \o Tr(i + 1)
    IN  Tr(1)
\* str.lower(), str.upper()
str_lower(s) == Translate(s, ToLower)
str_upper(s) == Translate(s, ToUpper)
\* str.endswith(suffix)
EndsWith(s, suffix) ==
    Len(s) >= Len(suffix) /\ SubSeq(s, Len(s) - Len(suffix) + 1, Len(s)) = suffix
\* sub in s
HasSub(s, sub) ==
    \E i \in 1..(Len(s) - Len(sub) + 1) : SubSeq(s, i, i + Len(sub) - 1) = sub
\* f"{n}" for one digit
Digit(n) == CharAt("0123456789", n + 1)

-----------------------------------------------------------------------------
(* The column search of the importers (the Schema Resolver) *)

\* the column at the first / last of the positions idx, None when there is none
FirstOf(cols, idx) ==
    IF idx = {} THEN NoKey ELSE cols[CHOOSE k \in idx : \A j \in idx : k <= j]
LastOf(cols, idx) ==
    IF idx = {} THEN NoKey ELSE cols[CHOOSE k \in idx : \A j \in idx : k >= j]
InColumns(col, cols) == \E k \in DOMAIN cols : cols[k] = col

Resolution(pcode_col, name_col, parent_pcode_col, level_num) ==
    [ pcode_col |-> pcode_col, name_col |-> name_col,
      parent_pcode_col |-> parent_pcode_col, level |-> level_num ]

\* reimport_all_boundaries.py, process_single_file_level, lines 296-349
resolve_single_file_level(cols, level_num) ==
    LET level_specific_pcode == "adm" \o Digit(level_num) \o "_pcode"
        level_specific_name  == "adm" \o Digit(level_num) \o "_name"
        low(k) == str_lower(cols[k])
        pcode_first == LastOf(cols, { k \in DOMAIN cols :
                          \/ low(k) = level_specific_pcode
                          \/ EndsWith(low(k), "_" \o level_specific_pcode) })
        name_first  == FirstOf(cols, { k \in DOMAIN cols :
                          \/ low(k) = level_specific_name
                          \/ EndsWith(low(k), "_" \o level_specific_name) })
        pcode_col == IF pcode_first # NoKey THEN pcode_first
                     ELSE FirstOf(cols, { k \in DOMAIN cols :
                              HasSub(low(k), "pcode") \/ HasSub(low(k), "pcod") })
        name_col  == IF name_first # NoKey THEN name_first
                     ELSE FirstOf(cols, { k \in DOMAIN cols : HasSub(low(k), "name") })
        parent_pcode_col ==
            IF level_num > 0
              THEN LET parent == "adm" \o Digit(level_num - 1)
                   IN  FirstOf(cols, { k \in DOMAIN cols :
                           \/ HasSub(low(k), parent \o "_pcode")
                           \/ HasSub(low(k), parent \o "_pcod") })
              ELSE NoKey
    IN  Resolution(pcode_col, name_col, parent_pcode_col, level_num)

\* reimport_boundaries_single_country.py, lines 110-131: the name the code column is
\* looked up under; it may be a name the layer does not have
single_country_pcode(cols, level_num) ==
    LET lower_name == "adm" \o Digit(level_num) \o "_pcode"
        first  == IF InColumns(lower_name, cols) THEN lower_name ELSE str_upper(lower_name)
        second == IF InColumns(first, cols) THEN first
                  ELSE LET alt == FirstOf(cols, { k \in DOMAIN cols :
                                      /\ HasSub(str_lower(cols[k]), "adm" \o Digit(level_num))
                                      /\ HasSub(str_lower(cols[k]), "pcode") })
                       IN  IF alt # NoKey THEN alt ELSE first
    IN  IF InColumns(second, cols) THEN second ELSE NoKey

\* reimport_boundaries_single_country.py, lines 110-131 and 151-154
resolve_single_country(cols, level_num) ==
    LET lower_pcode == "adm" \o Digit(level_num) \o "_pcode"
        as_upper    == ~ InColumns(lower_pcode, cols)
        name0   == "adm" \o Digit(level_num) \o "_name"
        name1   == IF as_upper THEN str_upper(name0) ELSE name0
        parent0 == "adm" \o Digit(IF level_num > 0 THEN level_num - 1 ELSE 0) \o "_pcode"
        parent1 == IF as_upper THEN str_upper(parent0) ELSE parent0
    IN  Resolution(single_country_pcode(cols, level_num),
                   IF InColumns(name1, cols) THEN name1 ELSE NoKey,
                   IF level_num > 0 /\ InColumns(parent1, cols) THEN parent1 ELSE NoKey,
                   level_num)

\* add_palestine_data.py and add_madagascar_country.py, lines 245-259 / 267-281
resolve_import_boundaries(cols, level_num) ==
    LET admin_level == "adm" \o Digit(level_num)
        low(k) == str_lower(cols[k])
        pcode_col == LastOf(cols, { k \in DOMAIN cols :
                        \/ HasSub(low(k), "pcode")
                        \/ (HasSub(low(k), admin_level) /\ HasSub(low(k), "code")) })
        names == { k \in DOMAIN cols : HasSub(low(k), "name") /\ ~ HasSub(low(k), "pcode") }
        level_names == { k \in names : HasSub(low(k), admin_level) }
        name_col == IF level_names # {} THEN LastOf(cols, level_names) ELSE FirstOf(cols, names)
    IN  Resolution(pcode_col, name_col, NoKey, level_num)

\* fix_madagascar_names.py, lines 54-66
name_patterns(level_num) ==
    LET n == Digit(level_num)
    IN  << "adm" \o n \o "_en", "adm" \o n \o "_name", "adm" \o n \o "name",
           "adm" \o n \o "_fr", "adm" \o n \o "_ref", "adm" \o n \o "nm",
           "name_en", "name_fr", "name", "shapename", "shape_name" >>

\* fix_madagascar_names.py, lines 50-86
find_name_column(cols, level_num) ==
    LET patterns == name_patterns(level_num)
        low(k) == str_lower(cols[k])
        hits(p) == { k \in DOMAIN cols :
                       low(k) = patterns[p] \/ EndsWith(low(k), "_" \o patterns[p]) }
        matching == { p \in DOMAIN patterns : hits(p) # {} }
        names == { k \in DOMAIN cols : HasSub(low(k), "name") /\ ~ HasSub(low(k), "pcode") }
        level_names == { k \in names : HasSub(low(k), "adm" \o Digit(level_num)) }
    IN  IF matching # {}
          THEN FirstOf(cols, hits(CHOOSE p \in matching : \A q \in matching : p <= q))
        ELSE IF level_names # {} THEN FirstOf(cols, level_names)
        ELSE FirstOf(cols, names)

\* fix_madagascar_names.py, lines 89-103
find_pcode_column(cols, level_num) ==
    LET admin_level == "adm" \o Digit(level_num)
        low(k) == str_lower(cols[k])
        first == FirstOf(cols, { k \in DOMAIN cols :
                    \/ (HasSub(low(k), "pcode") /\ HasSub(low(k), admin_level))
                    \/ (HasSub(low(k), admin_level) /\ HasSub(low(k), "code")) })
    IN  IF first # NoKey THEN first
        ELSE FirstOf(cols, { k \in DOMAIN cols : HasSub(low(k), "pcode") })

resolve_fix_names(cols, level_num) ==
    Resolution(find_pcode_column(cols, level_num), find_name_column(cols, level_num),
               NoKey, level_num)

-----------------------------------------------------------------------------
(* SpecLayers: one run of an importer over the layer files of a country; each
   step is one pass of the loop over the files *)

MaxFiles    == 2      \* layer files of the run
MaxColumns  == 3      \* attribute columns of a layer file, before its geometry column
MaxFeatures == 2      \* rows of a layer file

\* names the attribute columns of a layer file are drawn from
ColumnNames == {"ADM3_PCODE", "adm3_pcode", "ADM2_PCODE", "ADM3_EN", "ADM3_NAME", "NAME"}
LevelNums   == {2, 3}   \* the level in the file name (admin2, adm3, ...)

\* gdf.columns: distinct attribute columns in any order, then the geometry column
ColumnLists ==
    { Append(c, "geometry") :
        c \in { q \in UNION { [1..n -> ColumnNames] : n \in 0..MaxColumns } :
                  \A j, k \in DOMAIN q : j # k => q[j] # q[k] } }

\* a layer file: one that gpd.read_file cannot read, or a frame with its columns
UnreadableFile == [readable |-> FALSE, columns |-> <<>>, level |-> 0]
LayerFiles ==
    {UnreadableFile} \cup [readable : {TRUE}, columns : ColumnLists, level : LevelNums]

Importers == {"reimport_all", "single_country", "palestine", "madagascar", "fix_names"}

\* str(row[col]).strip() of row r: every cell of a readable file holds a value
Cell(col, r) == col \o "#" \o Digit(r)
FeatureRows == 1..MaxFeatures

Feature(admin_pcode, name, parent_pcode) ==
    [admin_pcode |-> admin_pcode, name |-> name, parent_pcode |-> parent_pcode]

\* what became of the layer in the loop body
Outcome(res, outcome) ==
    [ pcode_col |-> res.pcode_col, name_col |-> res.name_col,
      parent_pcode_col |-> res.parent_pcode_col, level |-> res.level, outcome |-> outcome ]
NotResolved(outcome) == Outcome(Resolution(NoKey, NoKey, NoKey, 0), outcome)

\* process_single_file_level going on to gdf[pcode_col] with no column found
single_file_level_unguarded(cols, level_num) ==
    LET res == resolve_single_file_level(cols, level_num)
    IN  IF ~ InColumns(res.pcode_col, cols) THEN Outcome(res, "raised")
        ELSE Outcome(res, "ok")
\* reimport_all_boundaries.py, lines 296-351: None is returned when no code column is
\* found; gdf[col] raises KeyError for a column the frame does not have
process_single_file_level(cols, level_num) ==
    LET res == resolve_single_file_level(cols, level_num)
    IN  IF res.pcode_col = NoKey THEN Outcome(res, "skipped")
        ELSE IF ~ InColumns(res.pcode_col, cols) THEN Outcome(res, "raised")
        ELSE IF res.name_col # NoKey /\ ~ InColumns(res.name_col, cols)
               THEN Outcome(res, "raised")
        ELSE Outcome(res, "ok")

\* reimport_all_boundaries.py, lines 332-351 and 634-642: the features
\* upload_boundaries_level submits for the frame
level_features(res) ==
    { Feature(Cell(res.pcode_col, r),
              IF res.name_col # NoKey THEN Cell(res.name_col, r) ELSE NoKey,
              IF res.parent_pcode_col # NoKey THEN Cell(res.parent_pcode_col, r) ELSE NoKey)
        : r \in FeatureRows }

\* reimport_boundaries_single_country.py, lines 141-156
single_country_features(res) ==
    { Feature(Cell(res.pcode_col, r),
              IF res.name_col # NoKey THEN Cell(res.name_col, r) ELSE NoKey,
              IF res.parent_pcode_col # NoKey THEN Cell(res.parent_pcode_col, r) ELSE NoKey)
        : r \in FeatureRows }

\* add_palestine_data.py, lines 266-297: the name falls back to the code, the frame
\* has no parent_pcode column
palestine_features(res) ==
    { Feature(Cell(res.pcode_col, r),
              IF res.name_col # NoKey THEN Cell(res.name_col, r) ELSE Cell(res.pcode_col, r),
              "")
        : r \in FeatureRows }

\* fix_madagascar_names.py, lines 236-256: the name updates sent, by admin_pcode
name_updates(res) ==
    { Feature(Cell(res.pcode_col, r), Cell(res.name_col, r), NoKey)
        : r \in { q \in FeatureRows : Cell(res.name_col, q) # Cell(res.pcode_col, q) } }

LayersInit ==
    /\ lpc = "loop"
    /\ lrun \in [kind : Importers, n : 1..MaxFiles, i : {0}]
    /\ gdf = [none |-> TRUE]
    /\ resolved = [none |-> TRUE]
    /\ layer_records = {}
    /\ HealthIdle /\ UploadIdle /\ CountryIdle
    /\ npc = "idle" /\ raw = <<>> /\ normalized = <<>> /\ renormalized = <<>>

\* for admin_file in admin_files: the loop variable is bound to the next file
TakeFile ==
    /\ lpc = "loop" /\ lrun.i < lrun.n
    /\ \E file \in LayerFiles : gdf' = file
    /\ resolved' = [none |-> TRUE]
    /\ layer_records' = {}
    /\ lpc' = "file"
    /\ UNCHANGED lrun
    /\ UNCHANGED <<npc, raw, normalized, renormalized, cvars>>
    /\ UNCHANGED <<hvars, uvars>>

\* the loop body is over or has reached a continue
NextFile(res, records) ==
    /\ resolved' = res
    /\ layer_records' = records
    /\ lrun' = [lrun EXCEPT !.i = @ + 1]
    /\ lpc' = "loop"
    /\ UNCHANGED gdf
\* an exception leaves the loop
AbortRun(res) ==
    /\ resolved' = res
    /\ layer_records' = {}
    /\ lpc' = "aborted"
    /\ UNCHANGED <<gdf, lrun>>

\* reimport_all_boundaries.py, lines 180-203 (process_boundaries_file) and 800
\* (upload_boundaries_level for the frames kept)
ReimportAllFile ==
    /\ lpc = "file" /\ lrun.kind = "reimport_all"
    /\ IF ~ gdf.readable
         THEN NextFile(NotResolved("unreadable"), {})
         ELSE LET res == process_single_file_level(gdf.columns, gdf.level)
              IN  NextFile(res, IF res.outcome = "ok" THEN level_features(res) ELSE {})
    /\ UNCHANGED <<npc, raw, normalized, renormalized, cvars>>
    /\ UNCHANGED <<hvars, uvars>>

\* reimport_boundaries_single_country.py, lines 95-186: read_file is outside any try
SingleCountryFile ==
    /\ lpc = "file" /\ lrun.kind = "single_country"
    /\ IF ~ gdf.readable
         THEN AbortRun(NotResolved("unreadable"))
         ELSE LET res == resolve_single_country(gdf.columns, gdf.level)
              IN  IF res.pcode_col = NoKey
                    THEN NextFile(Outcome(res, "skipped"), {})
                    ELSE NextFile(Outcome(res, "ok"), single_country_features(res))
    /\ UNCHANGED <<npc, raw, normalized, renormalized, cvars>>
    /\ UNCHANGED <<hvars, uvars>>

\* add_palestine_data.py, lines 195-338
PalestineFile ==
    /\ lpc = "file" /\ lrun.kind = "palestine"
    /\ IF ~ gdf.readable
         THEN NextFile(NotResolved("unreadable"), {})
         ELSE LET res == resolve_import_boundaries(gdf.columns, gdf.level)
              IN  IF res.pcode_col = NoKey
                    THEN NextFile(Outcome(res, "skipped"), {})
                    ELSE NextFile(Outcome(res, "ok"), palestine_features(res))
    /\ UNCHANGED <<npc, raw, normalized, renormalized, cvars>>
    /\ UNCHANGED <<hvars, uvars>>

\* add_madagascar_country.py, lines 217-221: the loop variable is geojson_file, the
\* body names shp_file, which the function never binds: NameError on the first pass,
\* before the try and before the file is read
MadagascarFile ==
    /\ lpc = "file" /\ lrun.kind = "madagascar"
    /\ AbortRun(NotResolved("not_reached"))
    /\ UNCHANGED <<npc, raw, normalized, renormalized, cvars>>
    /\ UNCHANGED <<hvars, uvars>>

\* fix_madagascar_names.py, lines 191-265
FixNamesFile ==
    /\ lpc = "file" /\ lrun.kind = "fix_names"
    /\ IF ~ gdf.readable
         THEN NextFile(NotResolved("unreadable"), {})
         ELSE LET res == resolve_fix_names(gdf.columns, gdf.level)
              IN  IF res.pcode_col = NoKey \/ res.name_col = NoKey
                    THEN NextFile(Outcome(res, "skipped"), {})
                    ELSE NextFile(Outcome(res, "ok"), name_updates(res))
    /\ UNCHANGED <<npc, raw, normalized, renormalized, cvars>>
    /\ UNCHANGED <<hvars, uvars>>

\* the loop over the files is over
LayersDone ==
    /\ lpc = "loop" /\ lrun.i >= lrun.n
    /\ lpc' = "done"
    /\ UNCHANGED <<lrun, gdf, resolved, layer_records>>
    /\ UNCHANGED <<npc, raw, normalized, renormalized, cvars>>
    /\ UNCHANGED <<hvars, uvars>>

LayersNext ==
    \/ TakeFile \/ ReimportAllFile \/ SingleCountryFile \/ PalestineFile
    \/ MadagascarFile \/ FixNamesFile \/ LayersDone

SpecLayers == LayersInit /\ [][LayersNext]_vars

\* the body has run on the file the loop took
BodyRan == lpc \in {"loop", "done", "aborted"} /\ resolved # [none |-> TRUE]

\* the loop body has taken a file and its resolver has run on the file's columns
ResolverRan == BodyRan /\ gdf.readable /\ resolved.outcome # "not_reached"

\* the columns and the level hint of the example
ExampleColumns == <<"ADM3_PCODE", "ADM3_EN", "ADM2_PCODE", "geometry">>
OnExample == ResolverRan /\ gdf.columns = ExampleColumns /\ gdf.level = 3

\* C16: on the columns ["ADM3_PCODE", "ADM3_EN", "ADM2_PCODE", "geometry"] with the
\* level hint ADM3 the resolver of the importer gives pcode = ADM3_PCODE,
\* name = ADM3_EN, parent = ADM2_PCODE and level = 3.
C16_ExampleResolution ==
    ( OnExample /\ lrun.kind \in {"reimport_all", "single_country", "fix_names"} )
    => /\ resolved.pcode_col = "ADM3_PCODE"
       /\ resolved.name_col = "ADM3_EN"
       /\ resolved.parent_pcode_col = "ADM2_PCODE"
       /\ resolved.level = 3

\* C17: whatever the columns of the layer, the resolver returns without raising;
\* when it finds no code column it gives the code column as unresolved, the layer is
\* skipped, no record of the layer is written, and the loop goes on.
C17_ResolverNeverRaises ==
    ResolverRan
    => /\ resolved.outcome # "raised"
       /\ resolved.pcode_col = NoKey
            => /\ resolved.outcome = "skipped"
               /\ layer_records = {}
               /\ lpc # "aborted"

\* process_single_file_level has run on a frame with attribute columns none of which
\* is a code column
C17_Witness ==
    /\ ResolverRan /\ lrun.kind = "reimport_all"
    /\ Len(gdf.columns) > 1
    /\ resolved.pcode_col = NoKey /\ resolved.outcome = "skipped"

\* C18: when the resolver finds no name column for a layer whose records are
\* written, every record of the layer carries its admin_pcode as its name.
C18_NameFallsBackToCode ==
    ( /\ ResolverRan /\ lrun.kind \in {"reimport_all", "madagascar"}
      /\ resolved.outcome = "ok" /\ resolved.name_col = NoKey )
    => \A f \in layer_records : f.name = f.admin_pcode

\* the resolver of each importer
ResolverOf(kind, cols, level_num) ==
    CASE kind = "reimport_all"   -> resolve_single_file_level(cols, level_num)
      [] kind = "single_country" -> resolve_single_country(cols, level_num)
      [] kind = "palestine"      -> resolve_import_boundaries(cols, level_num)
      [] kind = "madagascar"     -> resolve_import_boundaries(cols, level_num)
      [] kind = "fix_names"      -> resolve_fix_names(cols, level_num)

\* the file the loop took cannot be read, or has no column its importer's resolver
\* takes as the code column
FatalToLayer ==
    \/ ~ gdf.readable
    \/ ResolverOf(lrun.kind, gdf.columns, gdf.level).pcode_col = NoKey

\* C20: when the layer file cannot be read or its code column is unresolved, the
\* layer is skipped (nothing of it is written) and the loop goes on to the remaining
\* files: the run does not abort.
C20_LayerSkippedRunGoesOn ==
    ( /\ BodyRan /\ lrun.kind \in {"reimport_all", "madagascar", "palestine"}
      /\ FatalToLayer )
    => /\ lpc # "aborted"
       /\ resolved.outcome \in {"skipped", "unreadable"}
       /\ layer_records = {}

-----------------------------------------------------------------------------
(* Claims about a failed batch of upload_boundaries_level / upload_boundaries_file *)

\* the passes of the batch loop the running import has made so far
PassesOfRun == { k \in DOMAIN job.log : job.log[k].run = job.run }
FailedPasses == { k \in PassesOfRun : job.log[k].outcome = "error" }
\* range(0, len(records), batch_size)
BatchStarts == { i \in 0..Len(job.records) : i < Len(job.records) /\ i % BatchSize = 0 }
\* positions of job.records that lie in a batch whose call failed
FailedPositions ==
    { p \in DOMAIN job.records :
        \E k \in FailedPasses : job.log[k].i < p /\ p <= job.log[k].i + BatchSize }
\* the record the table holds for an element of job.records
RecordOf(kind, x) == IF kind = "level" THEN RpcRecord(x, CountryX, Level) ELSE x

\* C19: in upload_boundaries_level and upload_boundaries_file, when the call for
\* batch k fails, the rows of that batch are added to the error counter, every later
\* batch of the level is still submitted, and the records of the batches whose call
\* succeeded are in the store from then on.
C19_FailedBatchIsolated ==
    ( upc \in {"loop", "done"} /\ job.kind \in {"level", "file"} /\ FailedPasses # {} )
    => /\ ustats.errors >= Cardinality(FailedPositions)
       /\ \A k \in FailedPasses :
            \A i \in BatchStarts :
              (i > job.log[k].i /\ (upc = "done" \/ i < job.i))
                => \E j \in PassesOfRun : j > k /\ job.log[j].i = i
       /\ \A j \in PassesOfRun :
            job.log[j].outcome = "ok"
              => \A p \in DOMAIN job.records :
                   (job.log[j].i < p /\ p <= job.log[j].i + BatchSize)
                     => RecordOf(job.kind, job.records[p]) \in BagToSet(store)

\* the import is over; the call for the first batch failed, the call for the second
\* batch was made and wrote its records
C19_Witness ==
    /\ upc = "done" /\ job.kind \in {"level", "file"}
    /\ \E k \in FailedPasses : \E j \in PassesOfRun :
         /\ j > k /\ job.log[j].outcome = "ok" /\ job.log[j].n > 0
         /\ ustats.errors > 0

-----------------------------------------------------------------------------
(* Claims about the records of other countries *)

\* the rows of the table another country owns
OtherCountries(st) == { r \in BagToSet(st) : r.country_id # CountryX }

\* C21: throughout and after an import for country X by upload_boundaries_file or
\* upload_geojson_file, every record of the store owned by another country is as it was
\* before the import, also when a row of X's layer carries the admin_pcode of such a record.
C21_OtherCountriesUntouched ==
    ( upc \in {"loop", "done"} /\ job.kind \in {"file", "geojson"} )
    => /\ OtherCountries(store) = OtherCountries(snap.before)
       /\ \A r \in OtherCountries(snap.before) : store[r] = snap.before[r]

-----------------------------------------------------------------------------
(* Claims about the output of the Geometry Normalizer *)

\* what a null, empty or placeholder code of the source reads as in the frame
UnusableCodes == { AsStr(v) : v \in {NoKey, NaN, "", "None"} }
\* the raw row has a usable code and a valid polygonal geometry
UsableRaw(r) ==
    /\ AsStr(r.pcode) \notin UnusableCodes
    /\ is_polygon(r.geometry) /\ r.geometry.is_valid

\* C25: every record the normalizer outputs has a code that was neither null, empty
\* nor a placeholder in the source, a geometry of type Polygon or MultiPolygon that is
\* valid, and a code no other output record has.
C25_OutputRecordsUsable ==
    ( npc = "normalized" /\ ~ normalized.none )
    => /\ \A k \in DOMAIN normalized.rows :
            /\ normalized.rows[k].admin_pcode \notin UnusableCodes
            /\ is_polygon(normalized.rows[k].geometry)
            /\ normalized.rows[k].geometry.is_valid
       /\ \A j, k \in DOMAIN normalized.rows :
            j # k => normalized.rows[j].admin_pcode # normalized.rows[k].admin_pcode

\* C27: in process_single_file_level and process_level_from_admin_level_column the
\* output holds, for every code with a source row that passes the code, geometry-type
\* and validity filters, the first such row: a code with a usable row is never lost to
\* an earlier row of the same code with an invalid geometry.
C27_FirstUsableRowKept ==
    ( npc = "normalized" /\ raw.variant \in {"single_file", "admin_level_column"} )
    => \A k \in DOMAIN raw.rows :
         ( /\ UsableRaw(raw.rows[k])
           /\ \A j \in 1..(k - 1) :
                ~ (UsableRaw(raw.rows[j]) /\ raw.rows[j].pcode = raw.rows[k].pcode) )
         => /\ ~ normalized.none
            /\ \E m \in DOMAIN normalized.rows : normalized.rows[m] = Standardize(raw.rows[k])

-----------------------------------------------------------------------------
(* Claims about the batches and the counters of upload_boundaries_level /
   upload_boundaries_file *)

\* the batch a pass of the loop submitted
BatchOfPass(k) == Slice(job.records, job.log[k].i)
\* the passes of the running import, in the order they were made
FirstPass == CHOOSE k \in PassesOfRun : \A j \in PassesOfRun : k <= j

\* C28: when the batch loop of upload_boundaries_level or upload_boundaries_file is
\* over, it has made ceil(n / batch_size) passes for its n records, the passes took the
\* list in order from 0 in steps of batch_size, every batch has between 1 and
\* batch_size records, and every record of the list is in exactly one batch.
C28_ChunkingExact ==
    ( upc = "done" /\ job.kind \in {"level", "file"} )
    => LET n == Len(job.records)
       IN  /\ Cardinality(PassesOfRun) = (n + BatchSize - 1) \div BatchSize
           /\ \A k \in PassesOfRun :
                /\ job.log[k].i = (k - FirstPass) * BatchSize
                /\ Len(BatchOfPass(k)) >= 1 /\ Len(BatchOfPass(k)) <= BatchSize
                /\ \A q \in DOMAIN BatchOfPass(k) :
                     BatchOfPass(k)[q] = job.records[job.log[k].i + q]
           /\ \A p \in DOMAIN job.records :
                Cardinality({ k \in PassesOfRun :
                                job.log[k].i < p /\ p <= job.log[k].i + Len(BatchOfPass(k)) }) = 1

\* the loop is over for a list that does not divide into whole batches
C28_Witness ==
    /\ upc = "done" /\ job.kind \in {"level", "file"}
    /\ Len(job.records) > BatchSize /\ Len(job.records) % BatchSize # 0
    /\ Cardinality(PassesOfRun) >= 2

\* C29: when upload_boundaries_file or upload_boundaries_level returns,
\* uploaded + skipped + errors equals the number of rows of the input layer, whatever
\* the outcome of each batch: written, failed, or answered without data.
C29_AccountingConservative ==
    ( upc = "done" /\ job.kind \in {"level", "file"} )
    => ustats.uploaded + ustats.skipped + ustats.errors = Len(layer)

-----------------------------------------------------------------------------
(* SpecCountry: the run of reimport_all_boundaries.py (main, process_country) or of
   reimport_boundaries_single_country.py (main) for one country *)

MaxLevelRows == 2     \* records of a level's frame

CountryLevels == {"ADM0", "ADM1", "ADM2"}
\* int(level.replace("ADM", ""))
level_num(level) == CASE level = "ADM0" -> 0 [] level = "ADM1" -> 1 [] level = "ADM2" -> 2
\* f"ADM{level_num - 1}"
parent_level(level) == "ADM" \o Digit(level_num(level) - 1)

\* the code of the k-th record of a level
RowCode(level, k) == level \o "." \o Digit(k)
\* what the parent_pcode cell of a record of the level may hold: null, or the code of
\* the first or second record of the level above; at level 0, null or any text
ParentCells(level) ==
    IF level = "ADM0" THEN {NoKey, "junk"}
    ELSE {NoKey, RowCode(parent_level(level), 1), RowCode(parent_level(level), 2)}
\* the frames process_boundaries_file may hold for a level: none, or 1..MaxLevelRows
\* records with distinct codes
LevelFrames(level) ==
    {NoFrame} \cup
    { Frame([k \in 1..n |-> [admin_pcode |-> RowCode(level, k), parent_pcode |-> cells[k]]]) :
        n \in 1..MaxLevelRows, cells \in [1..MaxLevelRows -> ParentCells(level)] }

\* a process_boundaries_file that keeps a level only when its count is the expected one
process_boundaries_file_strict(files, expected) ==
    [ level \in { l \in DOMAIN files : ~ files[l].none /\ Len(files[l].rows) = expected }
        |-> files[level].rows ]
\* reimport_all_boundaries.py, lines 196-201: a level is kept when its frame is not
\* None and not empty; a count other than the expected one only prints a warning
process_boundaries_file(files, expected) ==
    [ level \in { l \in DOMAIN files : ~ files[l].none /\ Len(files[l].rows) > 0 }
        |-> files[level].rows ]

RECURSIVE SortedLevels(_)
\* sorted(boundaries_by_level.keys())
SortedLevels(levels) ==
    IF levels = {} THEN <<>>
    ELSE LET first == CHOOSE l \in levels : \A m \in levels : level_num(l) <= level_num(m)
         IN  <<first>> \o SortedLevels(levels \ {first})

LevelStats(total, with_parent, orphans, valid_parents) ==
    [total |-> total, with_parent |-> with_parent, orphans |-> orphans,
     valid_parents |-> valid_parents]

\* the positions of a frame with a parent_pcode that is not null / null / in the set
WithParent(rows) == { k \in DOMAIN rows : rows[k].parent_pcode # NoKey }
NullParent(rows) == { k \in DOMAIN rows : rows[k].parent_pcode = NoKey }
ParentCodes(rows) == { rows[k].admin_pcode : k \in DOMAIN rows }

\* validate_parent_child_relationships with a missing parent level counted as no orphan
validate_level_lenient(boundaries_by_level, level) ==
    LET rows == boundaries_by_level[level]
    IN  IF level_num(level) = 0 THEN LevelStats(Len(rows), 0, 0, 0)
        ELSE IF parent_level(level) \notin DOMAIN boundaries_by_level
               THEN LevelStats(Len(rows), 0, 0, 0)
        ELSE LET parent_pcodes == ParentCodes(boundaries_by_level[parent_level(level)])
             IN  LevelStats(Len(rows), Cardinality(WithParent(rows)),
                            Cardinality(NullParent(rows)),
                            Cardinality({ k \in WithParent(rows) :
                                            rows[k].parent_pcode \in parent_pcodes }))
\* reimport_all_boundaries.py, lines 555-608: the stats of one level
validate_level(boundaries_by_level, level) ==
    LET rows == boundaries_by_level[level]
    IN  IF level_num(level) = 0 THEN LevelStats(Len(rows), 0, 0, 0)
        ELSE IF parent_level(level) \notin DOMAIN boundaries_by_level
               THEN LevelStats(Len(rows), 0, Len(rows), 0)
        ELSE LET parent_pcodes == ParentCodes(boundaries_by_level[parent_level(level)])
             IN  LevelStats(Len(rows), Cardinality(WithParent(rows)),
                            Cardinality(NullParent(rows)),
                            Cardinality({ k \in WithParent(rows) :
                                            rows[k].parent_pcode \in parent_pcodes }))

\* reimport_all_boundaries.py, lines 572-601: the levels an issue is reported for
issue_levels(boundaries_by_level) ==
    { level \in DOMAIN boundaries_by_level :
        /\ level_num(level) > 0
        /\ \/ parent_level(level) \notin DOMAIN boundaries_by_level
           \/ \E k \in WithParent(boundaries_by_level[level]) :
                boundaries_by_level[level][k].parent_pcode
                  \notin ParentCodes(boundaries_by_level[parent_level(level)]) }

\* validate_parent_child_relationships: (stats, issues)
validate_parent_child_relationships(boundaries_by_level) ==
    [ stats  |-> [level \in DOMAIN boundaries_by_level |->
                     validate_level(boundaries_by_level, level)],
      issues |-> issue_levels(boundaries_by_level) ]

NoStats == [none |-> TRUE]
Scripts == {"reimport_all", "single_country"}

\* a check that looks at the credentials only
credentials_only(run) == run.credentials
\* the run has its credentials and the country has a row in the countries table
preconditions_met(run) == run.credentials /\ run.mapped

CountryInit ==
    /\ cpc = "start"
    /\ \E script \in Scripts, credentials \in BOOLEAN, mapped \in BOOLEAN,
          expected \in 1..MaxLevelRows :
         \E f0 \in LevelFrames("ADM0"), f1 \in LevelFrames("ADM1"),
            f2 \in LevelFrames("ADM2") :
           /\ script = "single_country" => expected = 1
           /\ LET files == [l \in CountryLevels |->
                              IF l = "ADM0" THEN f0 ELSE IF l = "ADM1" THEN f1 ELSE f2]
              IN crun = [ script |-> script, credentials |-> credentials, mapped |-> mapped,
                       files |-> files, expected |-> expected,
                       downloaded |-> FALSE, boundaries_by_level |-> <<>>,
                       validation |-> NoStats, submitted |-> <<>> ]
    /\ HealthIdle /\ UploadIdle
    /\ npc = "idle" /\ raw = <<>> /\ normalized = <<>> /\ renormalized = <<>>
    /\ lpc = "idle" /\ lrun = [none |-> TRUE] /\ gdf = [none |-> TRUE]
    /\ resolved = [none |-> TRUE] /\ layer_records = {}

\* reimport_all_boundaries.py, main 828-833 and process_country 709-711;
\* reimport_boundaries_single_country.py, main 38-50 (.single() with no row raises or
\* returns no data: the run ends either way)
CheckPreconditions ==
    /\ cpc = "start"
    /\ IF preconditions_met(crun)
         THEN cpc' = "checked"
         ELSE \/ cpc' = "halted"
              \/ /\ crun.script = "single_country" /\ crun.credentials
                 /\ cpc' = "aborted"
    /\ UNCHANGED crun
    /\ UNCHANGED <<hvars, uvars, npc, raw, normalized, renormalized, rvars>>

\* process_country 721-758 / main 52-78: the resource is looked up and downloaded, or
\* the run returns
Download ==
    /\ cpc = "checked"
    /\ \/ /\ crun' = [crun EXCEPT !.downloaded = TRUE]
          /\ cpc' = "downloaded"
       \/ /\ cpc' = "halted"
          /\ UNCHANGED crun
    /\ UNCHANGED <<hvars, uvars, npc, raw, normalized, renormalized, rvars>>

\* process_country 762-770: process_boundaries_file, and the return when no level
\* was extracted
ExtractLevels ==
    /\ cpc = "downloaded" /\ crun.script = "reimport_all"
    /\ LET by_level == process_boundaries_file(crun.files, crun.expected)
       IN  /\ crun' = [crun EXCEPT !.boundaries_by_level = by_level]
           /\ cpc' = IF DOMAIN by_level = {} THEN "halted" ELSE "extracted"
    /\ UNCHANGED <<hvars, uvars, npc, raw, normalized, renormalized, rvars>>

\* process_country 776-791: the validation and its printed report
Validate ==
    /\ cpc = "extracted"
    /\ crun' = [crun EXCEPT !.validation =
                   validate_parent_child_relationships(crun.boundaries_by_level)]
    /\ cpc' = "validated"
    /\ UNCHANGED <<hvars, uvars, npc, raw, normalized, renormalized, rvars>>

\* reimport_boundaries_single_country.py, main 86-161: the admin files that have a
\* code column and at least one feature, in the order of sorted(admin_files)
admin_files(files) == SortedLevels({ l \in DOMAIN files : ~ files[l].none })
\* the levels the upload loop goes through
UploadOrder ==
    IF crun.script = "reimport_all" THEN SortedLevels(DOMAIN crun.boundaries_by_level)
    ELSE admin_files(crun.files)
\* the upload loop may run: process_country after the validation, the single-country
\* script right after the download
UploadLoop ==
    \/ cpc = "validated"
    \/ cpc = "downloaded" /\ crun.script = "single_country"

\* process_country 796-800: one pass of the loop over sorted(boundaries_by_level.keys()),
\* upload_boundaries_level returns its stats whatever happened to its batches;
\* main 86-186 of the single-country script: one admin file, its batches sent
UploadLevel ==
    /\ UploadLoop /\ Len(crun.submitted) < Len(UploadOrder)
    /\ crun' = [crun EXCEPT !.submitted = Append(@, UploadOrder[Len(@) + 1])]
    /\ UNCHANGED cpc
    /\ UNCHANGED <<hvars, uvars, npc, raw, normalized, renormalized, rvars>>

\* process_country 807-823: the loop is over
CountryDone ==
    /\ UploadLoop /\ Len(crun.submitted) = Len(UploadOrder)
    /\ cpc' = "done"
    /\ UNCHANGED crun
    /\ UNCHANGED <<hvars, uvars, npc, raw, normalized, renormalized, rvars>>

CountryNext ==
    \/ CheckPreconditions \/ Download \/ ExtractLevels \/ Validate
    \/ UploadLevel \/ CountryDone

SpecCountry == CountryInit /\ [][CountryNext]_vars

\* the levels of the downloaded file that hold a frame
ExtractedLevels == { l \in CountryLevels : ~ crun.files[l].none }
\* the validation has run
Validated == crun.validation # NoStats

\* C22: when process_country is through, every level extracted from the file has been
\* submitted for upload, in the order of the levels, whatever issues the validation
\* reported and whether or not a level's count is the expected one
C22_ExtractedLevelsSubmitted ==
    (cpc = "done" /\ crun.script = "reimport_all")
        => crun.submitted = SortedLevels(ExtractedLevels)
\* a finished run whose validation reported an issue and which submitted a level
\* whose count is not the expected one
C22_Witness ==
    /\ cpc = "done" /\ crun.script = "reimport_all"
    /\ Validated /\ crun.validation.issues # {}
    /\ \E k \in DOMAIN crun.submitted :
         Len(crun.files[crun.submitted[k]].rows) # crun.expected

\* the records of a level whose parent reference is the code of a record of the
\* level above
Resolving(level) ==
    { k \in DOMAIN crun.boundaries_by_level[level] :
        crun.boundaries_by_level[level][k].parent_pcode
          \in ParentCodes(crun.boundaries_by_level[parent_level(level)]) }
\* the levels above 0 of the run whose parent level is in the run
LevelsWithParent ==
    { level \in DOMAIN crun.boundaries_by_level :
        level_num(level) > 0 /\ parent_level(level) \in DOMAIN crun.boundaries_by_level }

\* C23: for a level above 0 whose parent level is present, valid_parents counts the
\* records whose parent reference resolves, orphans counts the records whose parent
\* reference does not, and the two add up to the total
C23_OrphansAreTheUnresolved ==
    Validated =>
      \A level \in LevelsWithParent :
        LET stats == crun.validation.stats[level]
            total == Len(crun.boundaries_by_level[level])
        IN  /\ stats.valid_parents = Cardinality(Resolving(level))
            /\ stats.orphans = total - Cardinality(Resolving(level))
            /\ stats.valid_parents + stats.orphans = stats.total

\* C24: the validation reports every level of the run; level 0 with no orphan
\* whatever its parent fields hold, and a level whose parent level is not in the run
\* with as many orphans as it has records
C24_ExemptAndFullyOrphaned ==
    Validated =>
      /\ DOMAIN crun.validation.stats = DOMAIN crun.boundaries_by_level
      /\ \A level \in DOMAIN crun.boundaries_by_level :
           LET stats == crun.validation.stats[level]
           IN  /\ stats.total = Len(crun.boundaries_by_level[level])
               /\ level_num(level) = 0 => stats.orphans = 0
               /\ (level_num(level) > 0
                     /\ parent_level(level) \notin DOMAIN crun.boundaries_by_level)
                    => stats.orphans = stats.total
\* a validated run with a level 0 record holding a parent field, and a level 2 without
\* level 1
C24_Witness ==
    /\ Validated
    /\ DOMAIN crun.boundaries_by_level = {"ADM0", "ADM2"}
    /\ \E k \in DOMAIN crun.boundaries_by_level["ADM0"] :
         crun.boundaries_by_level["ADM0"][k].parent_pcode # NoKey
    /\ crun.validation.stats["ADM2"].orphans = Len(crun.boundaries_by_level["ADM2"])

\* C26: a run without credentials, or for a country without a row in the countries
\* table, ends before the download and submits nothing
C26_HaltsBeforeAnyWork ==
    ~ (crun.credentials /\ crun.mapped)
        => /\ cpc \in {"start", "halted", "aborted"}
           /\ ~ crun.downloaded
           /\ crun.submitted = <<>>
           /\ crun.boundaries_by_level = <<>>
\* a run with credentials halted for a country that is not in the table
C26_Witness ==
    /\ cpc = "halted" /\ crun.credentials /\ ~ crun.mapped
    /\ ExtractedLevels # {}

=============================================================================
